---- MODULE Spec2Model ----
(***************************************************************************)
(* proto-mixmaster: the process-audio function (the J Dilla effect engine  *)
(* and its HTTP handler) and the task page that polls the per-style jobs   *)
(* of one upload.                                                          *)
(*                                                                         *)
(* Samples are fixed-point integers: Unit stands for the sample value 1.0. *)
(* Every value the decoder, the stretch and the bit reduction store is a   *)
(* small multiple of a power of two, which a float32 holds exactly; the    *)
(* crackle loop stores sums that a float32 cannot hold, and fround gives   *)
(* what the Float32Array slot holds instead.                               *)
(* Float32Array indices are 0-based in the source and 1-based here, so     *)
(* buffer[i] of the source is buf[i + 1] of the model.                     *)
(***************************************************************************)
EXTENDS Integers, Sequences, FiniteSets, TLC

VARIABLES
    hpc,            \* handler: "idle" | "decoding" | "processed" | "done"
    event,          \* handler: the request being served (httpMethod, body)
    audioBuffer,    \* handler: what decodeAudioData resolved with
    stretched,      \* engine: processedBuffer after the time-stretch loop
    crushed,        \* engine: processedBuffer after the bit-reduction loop
    processed,      \* handler: what applyJDillaEffect resolved with
    response,       \* handler: the response returned for the request
    engineCalls,    \* handler: calls of applyJDillaEffect for the request
    responses,      \* handler: responses returned for the request
    jobs,           \* server: status of the job of each style of the task
    taskId,         \* TaskView: the route parameter
    status,         \* TaskView: useState('processing')
    remixedAudio,   \* TaskView: useState([])
    errorMessage,   \* TaskView: useState(null)
    fpc,            \* fetchStatus: "unmounted" | "awaiting" | "settled" | "returned"
    cur,            \* fetchStatus: index in producers of the style being polled
    holderArray,    \* fetchStatus: the MixObjects pushed so far
    audioUrl,       \* checkStatus: let audioUrl
    attempts,       \* checkStatus: let attempts
    requests,       \* checkStatus: status requests answered in this call
    lastStatus,     \* checkStatus: statusResponse.data.status of the last answer
    thrown,         \* checkStatus: the error the call rejected with
    trial,          \* quantization stage: the lofiAmount tried and its step
    passes,         \* quantization stage: one sample after each rounding pass
    picked,         \* FileUploader: the files of the user's last gesture
    handed,         \* FileUploader: the files passed to onFileSelected for it
    studio,         \* RemixStudio: the useState values of the component
    uploads,        \* RemixStudio: the calls of handleFileSelected so far
    resetDone,      \* RemixStudio: resetState ran and no file was selected since
    runs,           \* TaskView: the fetchStatus runs the effect has started
    written         \* TaskView: which run last set the status, under which taskId

audioVars == <<hpc, event, audioBuffer, stretched, crushed, processed,
               response, engineCalls, responses>>
taskVars == <<jobs, taskId, status, remixedAudio, errorMessage, fpc, cur,
              holderArray, audioUrl, attempts, requests, lastStatus, thrown>>
stageVars == <<trial, passes>>
uploadVars == <<picked, handed>>
studioVars == <<studio, uploads, resetDone>>
routeVars == <<runs, written>>
vars == <<audioVars, taskVars, stageVars, uploadVars, studioVars, routeVars>>

Null == "null"

(***************************************************************************)
(* Bounds of the model.                                                    *)
(***************************************************************************)
\* longest decoded channel, in samples
MaxLen == 100
\* Math.random() is drawn from the grid {0, 1/RandDen, ..., (RandDen-1)/RandDen}
RandDen == 4
\* lofiAmount is tried on the grid {0, 1/LofiGrid, ..., 1}
LofiGrid == 20
\* the samples of the quantization trials lie FineGrain times finer than the
\* finest quantization step
FineGrain == 3

(***************************************************************************)
(* The parameters of applyJDillaEffect.                                    *)
(***************************************************************************)
\* swingAmount = 0.3 = SwingNum / SwingDen
SwingNum == 3
SwingDen == 10
\* timeStretchFactor = 0.98 = TimeStretchNum / TimeStretchDen
TimeStretchNum == 98
TimeStretchDen == 100
\* lofiAmount = 0.4 = LofiNum / LofiDen
LofiNum == 4
LofiDen == 10
\* bitDepth = 16 - Math.floor(10 * lofiAmount)
FullBitDepth == 16
LofiBits == 10
\* crackleAmplitude = lofiAmount * 0.01 = lofiAmount * CrackleNum / CrackleDen
CrackleNum == 1
CrackleDen == 100

\* The whole bit depth is scaled by lofiAmount.
BitDepthOfFullScale(num, den) == FullBitDepth - ((FullBitDepth * num) \div den)

\* 16 - Math.floor(10 * lofiAmount) for lofiAmount = num / den. Nothing
\* clamps the difference.
BitDepthOf(num, den) == FullBitDepth - ((LofiBits * num) \div den)

\* Math.pow(2, bitDepth - 1); below bit depth 1 the power is a fraction
\* smaller than 1, of which the model keeps the integer part.
BitCrushOf(depth) == IF depth >= 1 THEN 2 ^ (depth - 1) ELSE 0

bitDepth == BitDepthOf(LofiNum, LofiDen)
bitCrush == BitCrushOf(bitDepth)

\* One quantization step 1/bitCrush, in sample units.
QStep == LofiDen * CrackleDen * RandDen
\* The sample value 1.0.
Unit == bitCrush * QStep
\* crackleAmplitude / RandDen, in sample units.
CrackleGrain == LofiNum * CrackleNum * bitCrush

(***************************************************************************)
(* Uploads and the decoder (web-audio-api's decodeAudioData).              *)
(***************************************************************************)
Patterns == {"silence", "ramp", "offgrid"}
SampleRates == {44100, 48000}

\* Sample i (0-based) of channel c of a decoded upload with pattern p.
\* "ramp" stays on the quantization grid; "offgrid" hits the half steps.
SampleAt(p, c, i) ==
    CASE p = "silence" -> 0
      [] p = "ramp" -> (((i + c) % 9) - 4) * (Unit \div 4)
      [] p = "offgrid" -> (((i + c) % 7) - 3) * (QStep \div 2)
                          + (((i + c) % 3) - 1) * (Unit \div 2)

NoBody == [kind |-> "none"]
Garbage == [kind |-> "garbage"]
\* The decoded lengths tried: the shortest, the longest and some in between.
Lengths == {n \in 0..MaxLen : n < 4 \/ n % 10 \in {0, 9} \/ n > MaxLen - 4}
AudioBodies ==
    [kind : {"audio"}, length : Lengths, pattern : Patterns,
     numberOfChannels : 1..2, sampleRate : SampleRates]
Bodies == {NoBody, Garbage} \cup AudioBodies
Methods == {"POST", "GET", "OPTIONS"}

NoAudio == [numberOfChannels |-> 0, sampleRate |-> 0, channelData |-> <<>>]

Decodable(body) == body.kind = "audio"

decodeAudioData(body) ==
    [numberOfChannels |-> body.numberOfChannels,
     sampleRate |-> body.sampleRate,
     channelData |-> [c \in 1..body.numberOfChannels |->
                        [i \in 1..body.length |->
                            SampleAt(body.pattern, c - 1, i - 1)]]]

getChannelData(buffer, c) == buffer.channelData[c + 1]

(***************************************************************************)
(* applyJDillaEffect.                                                      *)
(***************************************************************************)
Zeros(n) == [i \in 1..n |-> 0]

\* Math.floor(sourceData.length * (1 / timeStretchFactor))
StretchedLength(n, num, den) == (n * den) \div num

\* Math.round in place of Math.floor.
OriginalIndexRounded(i, num, den) == (2 * i * num + den) \div (2 * den)

\* Math.floor(i * timeStretchFactor)
OriginalIndex(i, num, den) == (i * num) \div den

\* The time-stretch loop for the factor num / den. processedBuffer has
\* sourceData.length slots, all zero; iteration i of the loop stores into slot
\* i when the slot exists (a Float32Array drops a store past its end), so slot
\* i is written by iteration i alone, and only if the loop gets that far.
TimeStretch(sourceData, num, den) ==
    LET length == Len(sourceData)
        processedBuffer == Zeros(length)
        stretchedLength == StretchedLength(length, num, den)
    IN [k \in 1..length |->
          LET i == k - 1
              originalIndex == OriginalIndex(i, num, den)
          IN IF i < stretchedLength /\ originalIndex < length
               THEN sourceData[originalIndex + 1]
               ELSE processedBuffer[k]]

\* Math.round(sample * step + 0.5) / step: the half is added twice.
RoundToStepBiased(sample, q) == ((2 * sample + 2 * q) \div (2 * q)) * q

\* Math.round(x): the nearest integer, halves towards +infinity.
\* Math.round(sample * step) / step, where q is 1 / step in the units of
\* sample. The step is a power of two, so the product, the rounding and the
\* quotient are exact in floating point.
RoundToStep(sample, q) == ((2 * sample + q) \div (2 * q)) * q

\* Math.round(sample * bitCrush) / bitCrush, in sample units.
Quantize(sample) == RoundToStep(sample, QStep)

\* The bit-reduction loop: every slot is replaced by its quantized value.
BitCrush(buf) == [k \in 1..Len(buf) |-> Quantize(buf[k])]

\* The random source: draw i is ((seed + stride * i) % RandDen) / RandDen.
RandomSources == [seed : 0..(RandDen - 1), stride : 0..1]
Draw(rnd, i) == (rnd.seed + rnd.stride * i) % RandDen

\* crackleAmplitude = lofiAmount * 0.01, in sample units.
CrackleAmplitude == RandDen * CrackleGrain

\* Math.random() * 2 * crackleAmplitude: the noise is never negative.
NoiseOneSided(k) == 2 * k * CrackleGrain

\* (Math.random() * 2 - 1) * crackleAmplitude, in sample units.
Noise(k) == (2 * k - RandDen) * CrackleGrain

\* A float32 has 24 significant bits.
SignificandBits == 24
\* The float32 values between 1.0 and 2.0 lie UlpsPerStep to a quantization
\* step; between 2^-j and 2^(1-j) they lie 2^j times closer.
UlpsPerStep == 2 ^ (SignificandBits - bitDepth)

Abs(x) == IF x < 0 THEN -x ELSE x

\* The j with 2^-j <= a / Unit < 2^(1-j), for 0 < a < 2 * Unit.
Binade(a) ==
    CHOOSE j \in 0..SignificandBits :
        /\ a * (2 ^ j) >= Unit
        /\ j = 0 \/ a * (2 ^ (j - 1)) < Unit

\* What a Float32Array slot holds after x is stored into it: the float32
\* nearest to x, ties to the even significand. The slot's value is
\*     near + err / (QStep * step)   sample units,
\* where step = 2^scale * UlpsPerStep / QStep is the number of float32 values
\* to a sample unit around x; so err / QStep is the rounding error in float32
\* steps, at most one half, and always less than one sample unit.
fround(x) ==
    IF x = 0
      THEN [near |-> 0, err |-> 0, scale |-> 0]
      ELSE LET a == Abs(x)
               j == Binade(a)
               m == a * (2 ^ j)
               fine == (m % QStep) * UlpsPerStep
               lo == (m \div QStep) * UlpsPerStep + (fine \div QStep)
               rem == fine % QStep
               up == 2 * rem > QStep \/ (2 * rem = QStep /\ lo % 2 = 1)
               d == IF up THEN QStep - rem ELSE -rem
           IN [near |-> x, err |-> IF x > 0 THEN d ELSE -d, scale |-> j]

\* A slot compared with b sample units; the slot's rounding error is less than
\* one sample unit, so only its sign can decide.
AtMost(slot, b) == slot.near < b \/ (slot.near = b /\ slot.err <= 0)
AtLeast(slot, b) == slot.near > b \/ (slot.near = b /\ slot.err >= 0)

\* The crackle loop: iteration i adds the noise of draw i to slot i, and the
\* Float32Array rounds the sum (computed in double precision, which the
\* model takes as exact) to a float32.
Crackle(buf, rnd) ==
    [k \in 1..Len(buf) |-> fround(buf[k] + Noise(Draw(rnd, k - 1)))]

ShippedStretch(sourceData) ==
    TimeStretch(sourceData, TimeStretchNum, TimeStretchDen)

\* The Float32Arrays of one call, each known by the binding that first holds
\* it; the heap maps an array to its contents.
SourceRef == "sourceData"
ArrayRefs == {"sourceData", "processedBuffer"}

\* const processedBuffer = sourceData: the loops work in place.
SameFloat32Array(heap) == SourceRef

\* new Float32Array(...): an array that no binding holds yet.
NewFloat32Array(heap) == CHOOSE ref \in ArrayRefs : ref \notin DOMAIN heap

\* const sourceData = audioBuffer.getChannelData(0): the one array there is
\* when the call begins.
SourceHeap(buffer) == [r \in {SourceRef} |-> getChannelData(buffer, 0)]

\* The arrays after the loop that stores `contents` into processedBuffer.
Stored(heap, ref, contents) ==
    [r \in DOMAIN heap \cup {ref} |-> IF r = ref THEN contents ELSE heap[r]]

\* The effect with its intermediate buffers: `stretched` and `crushed` are
\* processedBuffer after the first and the second loop, `source` is the
\* channel of the input as the call leaves it.
EffectStages(buffer, rnd) ==
    LET sourceData == SourceHeap(buffer)
        processedBuffer == NewFloat32Array(sourceData)
        allocated == Stored(sourceData, processedBuffer,
                            Zeros(Len(sourceData[SourceRef])))
        s == Stored(allocated, processedBuffer,
                    ShippedStretch(allocated[SourceRef]))
        c == Stored(s, processedBuffer, BitCrush(s[processedBuffer]))
        n == Stored(c, processedBuffer, Crackle(c[processedBuffer], rnd))
    IN [stretched |-> s[processedBuffer], crushed |-> c[processedBuffer],
        buffer |-> n[processedBuffer], sampleRate |-> buffer.sampleRate,
        source |-> n[SourceRef]]

ShippedSwing == [num |-> SwingNum, den |-> SwingDen]

\* The swing is applied: every other sample is taken up to four samples late.
EffectSwung(buffer, rnd, swingAmount) ==
    LET st == EffectStages(buffer, rnd)
        length == Len(st.buffer)
        late == (4 * swingAmount.num) \div swingAmount.den
    IN [st EXCEPT !.buffer =
          [k \in 1..length |->
              IF k % 2 = 0 /\ k + late <= length
                THEN st.buffer[k + late] ELSE st.buffer[k]]]

\* Lines 15-48 with swingAmount as a parameter: the constant is declared at
\* line 16 and no statement reads it.
EffectWithSwing(buffer, rnd, swingAmount) == EffectStages(buffer, rnd)

applyJDillaEffect(buffer, rnd) ==
    LET st == EffectWithSwing(buffer, rnd, ShippedSwing)
    IN [buffer |-> st.buffer, sampleRate |-> st.sampleRate]

\* interface ProcessedAudio: the channels of a result, one buffer.
OutputChannels(p) == <<p.buffer>>

(***************************************************************************)
(* The quantization stage on its own: lines 33-37 of applyJDillaEffect for *)
(* any lofiAmount of the documented range [0, 1] and one sample.           *)
(***************************************************************************)
NoTrial == [lofiAmount |-> Null]

\* The sample value 1.0 of a trial: every step 2^(bitDepth - 1) up to the
\* full bit depth divides it.
TrialUnit == BitCrushOf(FullBitDepth) * FineGrain

\* The samples tried: zero, +-1.0, and small multiples of powers of two, among
\* them the half steps of several bit depths.
PowersTried == {0, 3, 6, 9, 12, 14}
TrialSamples ==
    {m * (2 ^ i) : m \in -3..3, i \in PowersTried} \cup {TrialUnit, -TrialUnit}

\* Lines 33-34 for lofiAmount = k / LofiGrid, then the sample enters the loop.
TrialStart(k, sample) ==
    /\ trial = NoTrial
    /\ LET depth == BitDepthOf(k, LofiGrid)
       IN trial' = [lofiAmount |-> k, bitDepth |-> depth,
                    bitCrush |-> BitCrushOf(depth)]
    /\ passes' = <<sample>>
    /\ UNCHANGED <<audioVars, taskVars, uploadVars, studioVars, routeVars>>

\* Line 36 applied to the sample as it is now.
QuantizePass ==
    /\ trial # NoTrial
    /\ trial.bitCrush >= 1
    /\ Len(passes) < 3
    /\ passes' = Append(passes, RoundToStep(passes[Len(passes)],
                                            TrialUnit \div trial.bitCrush))
    /\ UNCHANGED <<trial, audioVars, taskVars, uploadVars, studioVars, routeVars>>

NextStage ==
    \/ \E k \in 0..LofiGrid, sample \in TrialSamples : TrialStart(k, sample)
    \/ QuantizePass

(***************************************************************************)
(* FileUploader: the drop zone (react-dropzone) and the file input behind  *)
(* the 'Select MP3 File' button.                                           *)
(***************************************************************************)
\* maxFiles: 1
MaxFiles == 1
\* maxSize: 50 * 1024 * 1024
MaxSize == 50 * 1024 * 1024

NoPick == [via |-> Null, files |-> <<>>]

\* The files a user can pick: by extension, by the type the browser reports,
\* and by size in bytes, at the limit and on both sides of it.
Sizes == {1, MaxSize, MaxSize + 1}
Files == [ext : {"mp3", "wav"}, type : {"audio/mpeg", "audio/wav"}, size : Sizes]

\* accept: { 'audio/mpeg': ['.mp3'] }: the type or the extension matches.
AcceptedType(file) == file.type = "audio/mpeg" \/ file.ext = "mp3"

\* What react-dropzone passes to onDrop as acceptedFiles: the files of the
\* accepted type within maxSize, or none of them when they exceed maxFiles.
AcceptedFiles(files) ==
    LET Fits(file) == AcceptedType(file) /\ file.size <= MaxSize
        fitting == SelectSeq(files, Fits)
    IN IF Len(fitting) > MaxFiles THEN <<>> ELSE fitting

\* Files are dropped on the drop zone, or chosen in the dialog it opens.
OnDrop(files) ==
    /\ picked' = [via |-> "dropzone", files |-> files]
    /\ LET acceptedFiles == AcceptedFiles(files)
       IN handed' = IF Len(acceptedFiles) > 0
                      THEN <<acceptedFiles[1]>> ELSE <<>>
    /\ UNCHANGED <<audioVars, taskVars, stageVars, studioVars, routeVars>>

\* The dialog of the button's file input closes with the files chosen: the
\* input takes one file at most, and its accept attribute filters the
\* dialog's list only until the user asks for all files.
OnChange(files) ==
    /\ picked' = [via |-> "file-input", files |-> files]
    /\ handed' = IF Len(files) > 0 THEN <<files[1]>> ELSE <<>>
    /\ UNCHANGED <<audioVars, taskVars, stageVars, studioVars, routeVars>>

Drops == {<<>>} \cup {<<f>> : f \in Files} \cup {<<f, g>> : f, g \in Files}
Choices == {<<>>} \cup {<<f>> : f \in Files}

NextUpload ==
    \/ \E files \in Drops : OnDrop(files)
    \/ \E files \in Choices : OnChange(files)

(***************************************************************************)
(* The process-audio handler.                                              *)
(***************************************************************************)
NoEvent == [httpMethod |-> Null, body |-> NoBody]
NoResponse == [statusCode |-> 0]
NoProcessed == [buffer |-> <<>>, sampleRate |-> 0]

MethodNotAllowed == [statusCode |-> 405, error |-> "Method not allowed"]
ErrorResponse == [statusCode |-> 500, error |-> "Error processing audio file"]
\* The rate of the AudioContext is declared instead of the buffer's.
SuccessResponseContextRate(p) ==
    [statusCode |-> 200, status |-> "success",
     message |-> "Audio processed successfully",
     audioData |-> <<"base64", p.buffer>>, sampleRate |-> 44100]

SuccessResponse(p) ==
    [statusCode |-> 200, status |-> "success",
     message |-> "Audio processed successfully",
     audioData |-> <<"base64", p.buffer>>, sampleRate |-> p.sampleRate]

\* The method is not looked at: every request with a body is decoded.
HandlerStartAnyMethod(method, body) ==
    /\ hpc = "idle"
    /\ event' = [httpMethod |-> method, body |-> body]
    /\ audioBuffer' = NoAudio
    /\ stretched' = <<>>
    /\ crushed' = <<>>
    /\ processed' = NoProcessed
    /\ engineCalls' = 0
    /\ IF body = NoBody
         THEN /\ response' = ErrorResponse
              /\ responses' = 1
              /\ hpc' = "done"
         ELSE /\ response' = NoResponse
              /\ responses' = 0
              /\ hpc' = "decoding"
    /\ UNCHANGED <<taskVars, stageVars, uploadVars, studioVars, routeVars>>

\* A request arrives; the handler runs up to `await ctx.decodeAudioData`.
HandlerStart(method, body) ==
    /\ hpc = "idle"
    /\ event' = [httpMethod |-> method, body |-> body]
    /\ audioBuffer' = NoAudio
    /\ stretched' = <<>>
    /\ crushed' = <<>>
    /\ processed' = NoProcessed
    /\ engineCalls' = 0
    /\ IF method # "POST"
         THEN /\ response' = MethodNotAllowed
              /\ responses' = 1
              /\ hpc' = "done"
         ELSE IF body = NoBody
           THEN /\ response' = ErrorResponse
                /\ responses' = 1
                /\ hpc' = "done"
           ELSE /\ response' = NoResponse
                /\ responses' = 0
                /\ hpc' = "decoding"
    /\ UNCHANGED <<taskVars, stageVars, uploadVars, studioVars, routeVars>>

\* decodeAudioData resolved: applyJDillaEffect is called with the buffer.
DecodeResolved(rnd) ==
    /\ hpc = "decoding"
    /\ Decodable(event.body)
    /\ LET decoded == decodeAudioData(event.body)
           st == EffectWithSwing(decoded, rnd, ShippedSwing)
       IN /\ audioBuffer' = [decoded EXCEPT !.channelData[1] = st.source]
          /\ stretched' = st.stretched
          /\ crushed' = st.crushed
          /\ processed' = [buffer |-> st.buffer, sampleRate |-> st.sampleRate]
    /\ engineCalls' = engineCalls + 1
    /\ hpc' = "processed"
    /\ UNCHANGED <<event, response, responses>>
    /\ UNCHANGED <<taskVars, stageVars, uploadVars, studioVars, routeVars>>

\* The rejection is swallowed and the effect runs on an empty buffer.
DecodeRejectedProcesses ==
    /\ hpc = "decoding"
    /\ ~Decodable(event.body)
    /\ audioBuffer' = [numberOfChannels |-> 1, sampleRate |-> 0,
                       channelData |-> << <<>> >>]
    /\ stretched' = <<>>
    /\ crushed' = <<>>
    /\ processed' = NoProcessed
    /\ engineCalls' = engineCalls + 1
    /\ hpc' = "processed"
    /\ UNCHANGED <<event, response, responses>>
    /\ UNCHANGED <<taskVars, stageVars, uploadVars, studioVars, routeVars>>

\* decodeAudioData rejected: the catch block answers.
DecodeRejected ==
    /\ hpc = "decoding"
    /\ ~Decodable(event.body)
    /\ response' = ErrorResponse
    /\ responses' = responses + 1
    /\ hpc' = "done"
    /\ UNCHANGED <<event, audioBuffer, stretched, crushed, processed, engineCalls>>
    /\ UNCHANGED <<taskVars, stageVars, uploadVars, studioVars, routeVars>>

\* applyJDillaEffect resolved: the success envelope is returned.
EffectResolved ==
    /\ hpc = "processed"
    /\ response' = SuccessResponse(processed)
    /\ responses' = responses + 1
    /\ hpc' = "done"
    /\ UNCHANGED <<event, audioBuffer, stretched, crushed, processed, engineCalls>>
    /\ UNCHANGED <<taskVars, stageVars, uploadVars, studioVars, routeVars>>

\* The invocation is over; the function serves the next request afresh.
HandlerEnd ==
    /\ hpc = "done"
    /\ hpc' = "idle"
    /\ event' = NoEvent
    /\ audioBuffer' = NoAudio
    /\ stretched' = <<>>
    /\ crushed' = <<>>
    /\ processed' = NoProcessed
    /\ response' = NoResponse
    /\ engineCalls' = 0
    /\ responses' = 0
    /\ UNCHANGED <<taskVars, stageVars, uploadVars, studioVars, routeVars>>

NextAudio ==
    \/ \E method \in Methods, body \in Bodies : HandlerStart(method, body)
    \/ \E rnd \in RandomSources : DecodeResolved(rnd)
    \/ DecodeRejected
    \/ EffectResolved
    \/ HandlerEnd

(***************************************************************************)
(* The jobs of the task on the server: one per style, from the             *)
(* specification's job state machine (the server is not among the sources).*)
(***************************************************************************)
producers == <<"dilla", "albini", "burns">>
Styles == {producers[i] : i \in 1..Len(producers)}

\* The task the upload created, and a task id the server has never issued.
ServerTask == "t1"
UnknownTask == "t0"

JobStart(s) ==
    /\ jobs[s] = "pending"
    /\ jobs' = [jobs EXCEPT ![s] = "processing"]
    /\ UNCHANGED <<taskId, status, remixedAudio, errorMessage, fpc, cur,
                   holderArray, audioUrl, attempts, requests, lastStatus, thrown>>
    /\ UNCHANGED <<audioVars, stageVars, uploadVars, studioVars, routeVars>>

JobComplete(s) ==
    /\ jobs[s] = "processing"
    /\ jobs' = [jobs EXCEPT ![s] = "complete"]
    /\ UNCHANGED <<taskId, status, remixedAudio, errorMessage, fpc, cur,
                   holderArray, audioUrl, attempts, requests, lastStatus, thrown>>
    /\ UNCHANGED <<audioVars, stageVars, uploadVars, studioVars, routeVars>>

JobFail(s) ==
    /\ jobs[s] = "processing"
    /\ jobs' = [jobs EXCEPT ![s] = "failed"]
    /\ UNCHANGED <<taskId, status, remixedAudio, errorMessage, fpc, cur,
                   holderArray, audioUrl, attempts, requests, lastStatus, thrown>>
    /\ UNCHANGED <<audioVars, stageVars, uploadVars, studioVars, routeVars>>

\* `${taskId}_${style}`
JobKey(t, style) == <<t, "_", style>>

\* GET /status/<key>: the job's status, or NotFound for an unknown key.
GetStatus(key) ==
    IF key[1] = ServerTask /\ key[3] \in Styles THEN jobs[key[3]] ELSE "NotFound"

(***************************************************************************)
(* checkStatus (apiService) and TaskView's fetchStatus.                    *)
(***************************************************************************)
maxAttempts == 30

\* `${API_URL}/audio/${taskId}_${style}`
AudioUrlOf(t, style) == <<"/audio/", JobKey(t, style)>>

ProducerName(producer) ==
    IF producer = "dilla" THEN "J. Dilla"
    ELSE IF producer = "albini" THEN "Steve Albini" ELSE "Scott Burns"

MixObject(producer, url) ==
    [name |-> producer, firstLast |-> ProducerName(producer), mix |-> url]

\* The bound compared with <= : one request too many.
LoopContinuesInclusive(url, n) == url = Null /\ n <= maxAttempts

\* while (!audioUrl && attempts < maxAttempts)
LoopContinues(url, n) == url = Null /\ n < maxAttempts

\* Any job that has left the queue is taken as done.
ReportsStarted(st) == st # "pending"

\* statusResponse.data.status === 'complete'
ReportsComplete(st) == st = "complete"

\* checkStatus is called: its locals are fresh and the first GET is sent.
CallCheckStatus ==
    /\ audioUrl' = Null
    /\ attempts' = 0
    /\ requests' = 0
    /\ lastStatus' = Null
    /\ thrown' = Null
    /\ fpc' = IF LoopContinues(Null, 0) THEN "awaiting" ELSE "settled"

\* The route renders TaskView with taskId t; the effect runs fetchStatus.
Mount(t) ==
    /\ fpc = "unmounted"
    /\ taskId' = t
    /\ IF t = Null
         THEN /\ fpc' = "returned"
              /\ UNCHANGED <<audioUrl, attempts, requests, lastStatus, thrown>>
         ELSE CallCheckStatus
    /\ cur' = 1
    /\ holderArray' = <<>>
    /\ UNCHANGED <<jobs, status, remixedAudio, errorMessage>>
    /\ UNCHANGED <<audioVars, stageVars, uploadVars, studioVars, routeVars>>

\* The answer to the pending GET arrives in checkStatus; the loop runs on to
\* the next GET, to `return audioUrl` or to the timeout error.
CheckStatusStep ==
    /\ fpc = "awaiting"
    /\ LET st == GetStatus(JobKey(taskId, producers[cur]))
       IN /\ requests' = requests + 1
          /\ IF st = "NotFound"
               THEN /\ thrown' = "Request failed with status code 404"
                    /\ fpc' = "settled"
                    /\ UNCHANGED <<audioUrl, attempts, lastStatus>>
               ELSE /\ lastStatus' = st
                    /\ IF ReportsComplete(st)
                         THEN /\ audioUrl' = AudioUrlOf(taskId, producers[cur])
                              /\ fpc' = "settled"
                              /\ UNCHANGED <<attempts, thrown>>
                         ELSE /\ attempts' = attempts + 1
                              /\ audioUrl' = audioUrl
                              /\ IF LoopContinues(audioUrl, attempts + 1)
                                   THEN /\ fpc' = "awaiting"
                                        /\ thrown' = thrown
                                   ELSE /\ fpc' = "settled"
                                        /\ thrown' = "Processing timeout"

\* Giving up also cancels the job on the server.
StatusResponseCancels ==
    /\ CheckStatusStep
    /\ jobs' = IF thrown' = "Processing timeout"
                THEN [jobs EXCEPT ![producers[cur]] = "failed"]
                ELSE jobs
    /\ UNCHANGED <<taskId, status, remixedAudio, errorMessage, cur, holderArray>>
    /\ UNCHANGED <<audioVars, stageVars, uploadVars, studioVars, routeVars>>

StatusResponse ==
    /\ CheckStatusStep
    /\ UNCHANGED <<jobs, taskId, status, remixedAudio, errorMessage, cur, holderArray>>
    /\ UNCHANGED <<audioVars, stageVars, uploadVars, studioVars, routeVars>>

\* setRemixedAudio / setStatus('complete') moved inside the for loop: the page
\* is marked complete after each style, while later styles are still polled.
FetchStatusResumeEager ==
    /\ fpc = "settled"
    /\ IF thrown # Null
         THEN /\ status' = "error"
              /\ errorMessage' = "Failed to load the remixed tracks. Please try again later."
              /\ fpc' = "returned"
              /\ UNCHANGED <<remixedAudio, cur, holderArray, audioUrl, attempts,
                             requests, lastStatus, thrown>>
         ELSE LET pushed == Append(holderArray, MixObject(producers[cur], audioUrl))
              IN /\ holderArray' = pushed
                 /\ remixedAudio' = pushed
                 /\ status' = "complete"
                 /\ errorMessage' = errorMessage
                 /\ IF cur < Len(producers)
                      THEN /\ cur' = cur + 1
                           /\ CallCheckStatus
                      ELSE /\ fpc' = "returned"
                           /\ UNCHANGED <<cur, audioUrl, attempts, requests,
                                          lastStatus, thrown>>
    /\ UNCHANGED <<jobs, taskId>>
    /\ UNCHANGED <<audioVars, stageVars, uploadVars, studioVars, routeVars>>

\* The url put at the front of holderArray (unshift for push).
FetchStatusResumeUnshift ==
    /\ fpc = "settled"
    /\ IF thrown # Null
         THEN /\ status' = "error"
              /\ errorMessage' = "Failed to load the remixed tracks. Please try again later."
              /\ fpc' = "returned"
              /\ UNCHANGED <<remixedAudio, cur, holderArray, audioUrl, attempts,
                             requests, lastStatus, thrown>>
         ELSE LET pushed == IF audioUrl # Null
                              THEN <<MixObject(producers[cur], audioUrl)>>
                                   \o holderArray
                              ELSE holderArray
              IN /\ holderArray' = pushed
                 /\ IF cur < Len(producers)
                      THEN /\ cur' = cur + 1
                           /\ CallCheckStatus
                           /\ UNCHANGED <<status, remixedAudio, errorMessage>>
                      ELSE /\ remixedAudio' = pushed
                           /\ status' = "complete"
                           /\ fpc' = "returned"
                           /\ UNCHANGED <<errorMessage, cur, audioUrl, attempts,
                                          requests, lastStatus, thrown>>
    /\ UNCHANGED <<jobs, taskId>>
    /\ UNCHANGED <<audioVars, stageVars, uploadVars, studioVars, routeVars>>

\* `await checkStatus(...)` settles in fetchStatus: the url is pushed and the
\* next producer polled, or the tracks are shown, or the catch block runs.
FetchStatusResume ==
    /\ fpc = "settled"
    /\ IF thrown # Null
         THEN /\ status' = "error"
              /\ errorMessage' = "Failed to load the remixed tracks. Please try again later."
              /\ fpc' = "returned"
              /\ UNCHANGED <<remixedAudio, cur, holderArray, audioUrl, attempts,
                             requests, lastStatus, thrown>>
         ELSE LET pushed == IF audioUrl # Null
                              THEN Append(holderArray,
                                          MixObject(producers[cur], audioUrl))
                              ELSE holderArray
              IN /\ holderArray' = pushed
                 /\ IF cur < Len(producers)
                      THEN /\ cur' = cur + 1
                           /\ CallCheckStatus
                           /\ UNCHANGED <<status, remixedAudio, errorMessage>>
                      ELSE /\ remixedAudio' = pushed
                           /\ status' = "complete"
                           /\ fpc' = "returned"
                           /\ UNCHANGED <<errorMessage, cur, audioUrl, attempts,
                                          requests, lastStatus, thrown>>
    /\ UNCHANGED <<jobs, taskId>>
    /\ UNCHANGED <<audioVars, stageVars, uploadVars, studioVars, routeVars>>

NextTask ==
    \/ \E s \in Styles : JobStart(s)
    \/ \E s \in Styles : JobComplete(s)
    \/ \E s \in Styles : JobFail(s)
    \/ \E t \in {ServerTask, UnknownTask, Null} : Mount(t)
    \/ StatusResponse
    \/ FetchStatusResume

(***************************************************************************)
(* RemixStudio: handleFileSelected, the upload it awaits, and resetState.  *)
(***************************************************************************)
\* calls of handleFileSelected in one behaviour
MaxUploads == 2

FileNames == {"a.mp3", "b.mp3"}
\* progressEvent.loaded * 100 / progressEvent.total, rounded
Percents == {50, 100}

\* The useState initial values, which are also what resetState sets.
IdleStudio ==
    [status |-> "idle", progress |-> 0, originalAudio |-> Null,
     remixedAudio |-> Null, errorMessage |-> Null, fileName |-> ""]

\* URL.createObjectURL(file)
ObjectUrl(name) == <<"blob:", name>>
\* response.audioUrl of call u of handleFileSelected
RemixUrl(u, name) == <<"blob:", "remix", u, name>>

\* The catch block of handleFileSelected.
Caught(st) ==
    [st EXCEPT !.status = "error",
               !.errorMessage = "There was an error processing your audio file. Please try again."]

\* FileUploader, rendered while the status is 'idle', hands over a file: the
\* call runs up to `await extractAudioSnippet(file)`.
handleFileSelected(name) ==
    /\ studio.status = "idle"
    /\ Len(uploads) < MaxUploads
    /\ studio' = [studio EXCEPT !.fileName = name, !.status = "uploading",
                                !.progress = 0, !.errorMessage = Null,
                                !.originalAudio = ObjectUrl(name)]
    /\ uploads' = Append(uploads, [name |-> name, pc |-> "extracting"])
    /\ resetDone' = FALSE
    /\ UNCHANGED <<audioVars, taskVars, stageVars, uploadVars, routeVars>>

\* extractAudioSnippet resolved in call u: processAudio is called and awaited.
SnippetResolved(u) ==
    /\ uploads[u].pc = "extracting"
    /\ uploads' = [uploads EXCEPT ![u].pc = "sending"]
    /\ UNCHANGED <<studio, resetDone>>
    /\ UNCHANGED <<audioVars, taskVars, stageVars, uploadVars, routeVars>>

\* extractAudioSnippet rejected in call u.
SnippetRejected(u) ==
    /\ uploads[u].pc = "extracting"
    /\ uploads' = [uploads EXCEPT ![u].pc = "done"]
    /\ studio' = Caught(studio)
    /\ UNCHANGED resetDone
    /\ UNCHANGED <<audioVars, taskVars, stageVars, uploadVars, routeVars>>

\* The progress callback of call u is invoked.
UploadProgress(u, percentCompleted) ==
    /\ uploads[u].pc = "sending"
    /\ studio' = [studio EXCEPT
                    !.progress = percentCompleted,
                    !.status = IF percentCompleted >= 100
                                 THEN "processing" ELSE @]
    /\ UNCHANGED <<uploads, resetDone>>
    /\ UNCHANGED <<audioVars, taskVars, stageVars, uploadVars, routeVars>>

\* processAudio resolved in call u.
UploadResolved(u) ==
    /\ uploads[u].pc = "sending"
    /\ uploads' = [uploads EXCEPT ![u].pc = "done"]
    /\ studio' = [studio EXCEPT !.remixedAudio = RemixUrl(u, uploads[u].name),
                                !.status = "complete"]
    /\ UNCHANGED resetDone
    /\ UNCHANGED <<audioVars, taskVars, stageVars, uploadVars, routeVars>>

\* processAudio rejected in call u.
UploadRejected(u) ==
    /\ uploads[u].pc = "sending"
    /\ uploads' = [uploads EXCEPT ![u].pc = "done"]
    /\ studio' = Caught(studio)
    /\ UNCHANGED resetDone
    /\ UNCHANGED <<audioVars, taskVars, stageVars, uploadVars, routeVars>>

\* The Reset or the Try Again button, rendered while the status is not 'idle'.
resetState ==
    /\ studio.status # "idle"
    /\ studio' = IdleStudio
    /\ resetDone' = TRUE
    /\ UNCHANGED uploads
    /\ UNCHANGED <<audioVars, taskVars, stageVars, uploadVars, routeVars>>

NextStudio ==
    \/ \E name \in FileNames : handleFileSelected(name)
    \/ \E u \in 1..Len(uploads) : SnippetResolved(u)
    \/ \E u \in 1..Len(uploads) : SnippetRejected(u)
    \/ \E u \in 1..Len(uploads), p \in Percents : UploadProgress(u, p)
    \/ \E u \in 1..Len(uploads) : UploadResolved(u)
    \/ \E u \in 1..Len(uploads) : UploadRejected(u)
    \/ resetState


(***************************************************************************)
(* TaskView under a change of the route parameter: the element of the      *)
(* route /task/:taskId stays mounted, its state is kept, and the effect    *)
(* runs fetchStatus again for the new taskId.                              *)
(***************************************************************************)
\* runs of fetchStatus in one behaviour
MaxRuns == 2

RouteTasks == {"t1", "t2"}

NoWrite == [by |-> Null, at |-> Null]

\* The other variables of the single-run model of TaskView.
pollVars ==
    <<jobs, fpc, cur, holderArray, audioUrl, attempts, requests, lastStatus,
      thrown>>

\* The route parameter becomes t: the effect, keyed on [taskId], calls
\* fetchStatus, which runs up to its first `await checkStatus`.  Nothing is
\* reset and the run started before goes on.
Navigate(t) ==
    /\ t # taskId
    /\ Len(runs) < MaxRuns
    /\ taskId' = t
    /\ runs' = Append(runs, [taskId |-> t, cur |-> 1, holderArray |-> <<>>,
                             pc |-> "polling"])
    /\ UNCHANGED <<status, remixedAudio, errorMessage, written, pollVars>>
    /\ UNCHANGED <<audioVars, stageVars, uploadVars, studioVars>>

\* checkStatus returns the url in run r: it is pushed and the next producer
\* polled, or the tracks are shown.
CheckStatusResolved(r) ==
    /\ runs[r].pc = "polling"
    /\ LET run == runs[r]
           producer == producers[run.cur]
           pushed == Append(run.holderArray,
                            MixObject(producer, AudioUrlOf(run.taskId, producer)))
       IN IF run.cur < Len(producers)
            THEN /\ runs' = [runs EXCEPT ![r].cur = run.cur + 1,
                                         ![r].holderArray = pushed]
                 /\ UNCHANGED <<status, remixedAudio, errorMessage, written>>
            ELSE /\ runs' = [runs EXCEPT ![r].holderArray = pushed,
                                         ![r].pc = "returned"]
                 /\ remixedAudio' = pushed
                 /\ status' = "complete"
                 /\ written' = [by |-> run.taskId, at |-> taskId]
                 /\ UNCHANGED errorMessage
    /\ UNCHANGED <<taskId, pollVars>>
    /\ UNCHANGED <<audioVars, stageVars, uploadVars, studioVars>>

\* checkStatus throws in run r: the catch block of fetchStatus.
CheckStatusRejected(r) ==
    /\ runs[r].pc = "polling"
    /\ runs' = [runs EXCEPT ![r].pc = "returned"]
    /\ status' = "error"
    /\ errorMessage' = "Failed to load the remixed tracks. Please try again later."
    /\ written' = [by |-> runs[r].taskId, at |-> taskId]
    /\ UNCHANGED <<taskId, remixedAudio, pollVars>>
    /\ UNCHANGED <<audioVars, stageVars, uploadVars, studioVars>>

NextRoute ==
    \/ \E t \in RouteTasks : Navigate(t)
    \/ \E r \in 1..Len(runs) : CheckStatusResolved(r)
    \/ \E r \in 1..Len(runs) : CheckStatusRejected(r)

(***************************************************************************)
(* Specifications.                                                         *)
(***************************************************************************)
Init ==
    /\ hpc = "idle"
    /\ event = NoEvent
    /\ audioBuffer = NoAudio
    /\ stretched = <<>>
    /\ crushed = <<>>
    /\ processed = NoProcessed
    /\ response = NoResponse
    /\ engineCalls = 0
    /\ responses = 0
    /\ jobs = [s \in Styles |-> "pending"]
    /\ taskId = Null
    /\ status = "processing"
    /\ remixedAudio = <<>>
    /\ errorMessage = Null
    /\ fpc = "unmounted"
    /\ cur = 1
    /\ holderArray = <<>>
    /\ audioUrl = Null
    /\ attempts = 0
    /\ requests = 0
    /\ lastStatus = Null
    /\ thrown = Null
    /\ trial = NoTrial
    /\ passes = <<>>
    /\ picked = NoPick
    /\ handed = <<>>
    /\ studio = IdleStudio
    /\ uploads = <<>>
    /\ resetDone = FALSE
    /\ runs = <<>>
    /\ written = NoWrite

Next == NextAudio \/ NextTask \/ NextStage \/ NextUpload \/ NextStudio
           \/ NextRoute

\* The whole system.
Spec == Init /\ [][Next]_vars
\* The process-audio function alone.
SpecAudio == Init /\ [][NextAudio]_vars
\* One task's jobs and the task page polling them.
SpecTask == Init /\ [][NextTask]_vars
\* The quantization stage for every lofiAmount tried.
SpecStage == Init /\ [][NextStage]_vars
\* The FileUploader and the user's gestures.
SpecUpload == Init /\ [][NextUpload]_vars
\* RemixStudio, its uploads and the reset button.
SpecStudio == Init /\ [][NextStudio]_vars
\* TaskView while the route parameter changes.
SpecRoute == Init /\ [][NextRoute]_vars

(***************************************************************************)
(* The effect engine and the handler: claims.                              *)
(***************************************************************************)
sourceDataOf(buffer) == getChannelData(buffer, 0)
EffectRan == hpc \in {"processed", "done"} /\ engineCalls > 0

\* C1: for a nonempty input of length N the buffer applyJDillaEffect returns
\* has length floor(N / timeStretchFactor), within one sample.
C1_OutputLengthIsStretched ==
    (EffectRan /\ Len(sourceDataOf(audioBuffer)) > 0) =>
        Abs(Len(processed.buffer)
            - StretchedLength(Len(sourceDataOf(audioBuffer)),
                              TimeStretchNum, TimeStretchDen)) <= 1

\* Stretch factors in (0, 2] besides the shipped one: 1.0, 1.5 and 0.5.
OtherFactors == {<<1, 1>>, <<3, 2>>, <<1, 2>>}

\* input[floor(i * f)] when that index is inside the input, silence otherwise.
StretchedSample(input, i, num, den) ==
    IF (i * num) \div den < Len(input) THEN input[((i * num) \div den) + 1] ELSE 0

\* Every output index i in [0, floor(N / f)) that the buffer has holds the
\* stretched sample; what the buffer has beyond them keeps its initial zero.
IsStretchOf(out, input, num, den) ==
    \A i \in 0..(Len(out) - 1) :
        out[i + 1] = IF i < StretchedLength(Len(input), num, den)
                       THEN StretchedSample(input, i, num, den)
                       ELSE 0

\* C2: after the time-stretch stage every sample i of the buffer is
\* input[floor(i * f)] when floor(i * f) is inside the input and zero
\* otherwise; with f = 1.0 the stretched buffer equals the input.
C2_StretchSamples ==
    EffectRan =>
        LET input == sourceDataOf(audioBuffer)
        IN /\ \A i \in 0..(Len(stretched) - 1) :
                stretched[i + 1] =
                    StretchedSample(input, i, TimeStretchNum, TimeStretchDen)
           /\ \A f \in OtherFactors :
                IsStretchOf(TimeStretch(input, f[1], f[2]), input, f[1], f[2])
           /\ TimeStretch(input, 1, 1) = input

\* C2 witness: the effect ran on an input long enough for the shipped factor
\* to shift samples (stretched[i] is input[i - 1], not input[i]), and a factor
\* above 1 leaves silence at the end of its buffer.
C2_Witness ==
    /\ EffectRan
    /\ LET input == sourceDataOf(audioBuffer)
       IN /\ Len(input) = MaxLen
          /\ \E i \in 1..(Len(input) - 1) :
                /\ stretched[i + 1] = input[i]
                /\ stretched[i + 1] # input[i + 1]
          /\ input[Len(input)] # 0
          /\ TimeStretch(input, 3, 2)[Len(input)] = 0

DecodeFailed == event.httpMethod = "POST" /\ event.body = Garbage

\* C10: an upload that does not decode fails the whole submission: the effect
\* engine is never invoked for it and the caller gets exactly one response,
\* the top-level error, never the success envelope.
C10_DecodeFailureFailsSubmission ==
    DecodeFailed =>
        /\ engineCalls = 0
        /\ processed = NoProcessed
        /\ hpc \in {"decoding", "done"}
        /\ hpc = "decoding" => responses = 0
        /\ hpc = "done" => (responses = 1 /\ response = ErrorResponse)

\* C10 witness: the handler has answered an undecodable upload.
C10_Witness ==
    /\ DecodeFailed
    /\ hpc = "done"
    /\ response.statusCode = 500
    /\ engineCalls = 0

(***************************************************************************)
(* The jobs and the task page: claims.                                     *)
(***************************************************************************)
clientVars == <<taskId, status, remixedAudio, errorMessage, fpc, cur,
                holderArray, audioUrl, attempts, requests, lastStatus, thrown>>

Forward == {<<"pending", "processing">>, <<"processing", "complete">>,
            <<"processing", "failed">>}

C4_TimeoutAfterMaxAttempts ==
    /\ requests <= maxAttempts
    /\ fpc = "awaiting" => requests < maxAttempts
    /\ thrown = "Processing timeout" =>
          (requests = maxAttempts /\ audioUrl = Null /\ lastStatus # "complete")
    /\ (requests = maxAttempts /\ audioUrl = Null) => thrown = "Processing timeout"

\* C4 witness: a call has timed out after maxAttempts requests.
C4_Witness ==
    /\ thrown = "Processing timeout"
    /\ requests = maxAttempts
    /\ jobs[producers[cur]] = "processing"

IsResultOf(mix, t) ==
    /\ mix.name \in Styles
    /\ mix.mix = AudioUrlOf(t, mix.name)
    /\ jobs[mix.name] = "complete"

\* C5: a url comes out of checkStatus only for a (taskId, style) that a status
\* response of that call reported complete; none for a job only seen pending,
\* processing or failed.
C5_UrlOnlyWhenComplete ==
    /\ audioUrl # Null =>
          /\ lastStatus = "complete"
          /\ audioUrl = AudioUrlOf(taskId, producers[cur])
          /\ jobs[producers[cur]] = "complete"
    /\ \A k \in 1..Len(holderArray) : IsResultOf(holderArray[k], taskId)
    /\ \A k \in 1..Len(remixedAudio) : IsResultOf(remixedAudio[k], taskId)

\* C5 witness: a url was returned for one style while another style's job,
\* polled after it, has failed.
C5_Witness ==
    /\ Len(holderArray) = 1
    /\ cur = 2
    /\ lastStatus = "failed"
    /\ audioUrl = Null

Obtained(s) == \E k \in 1..Len(holderArray) : holderArray[k].name = s
Shown(s) == \E k \in 1..Len(remixedAudio) : remixedAudio[k].name = s

\* C6: polling is independent per style: while the page polls, a style whose
\* job is complete is never held back behind the polling of a sibling; it is
\* being polled itself or its url has been obtained.
C6_PollingIndependent ==
    fpc = "awaiting" =>
        \A s \in Styles :
            jobs[s] = "complete" => (producers[cur] = s \/ Obtained(s))

\* C7: a failure of one style is isolated: once fetchStatus has returned, the
\* styles whose urls were obtained are shown and the page has not failed as a
\* whole.
C7_FailureIsolated ==
    (fpc = "returned" /\ Len(holderArray) > 0) =>
        /\ status = "complete"
        /\ \A s \in Styles : Obtained(s) => Shown(s)

\* C8: polling of a key stops as soon as a status response reports complete
\* or failed: no further request is pending after such a response.
C8_StopsAtTerminal ==
    fpc = "awaiting" => lastStatus \notin {"complete", "failed"}

\* C9: the poller only reads: no step of checkStatus or fetchStatus, the
\* timeout included, changes a job.
C9_PollerLeavesJobs ==
    [][clientVars' # clientVars => jobs' = jobs]_vars

\* C9 witness: the job whose polling timed out has completed afterwards.
C9_Witness ==
    /\ thrown = "Processing timeout"
    /\ fpc = "returned"
    /\ lastStatus = "processing"
    /\ jobs[producers[cur]] = "complete"

(***************************************************************************)
(* The quantization stage: claims.                                         *)
(***************************************************************************)
Max(a, b) == IF a >= b THEN a ELSE b

\* The bit depth the specification asks for: the difference, at least 1.
ClampedBitDepth(k) == Max(1, FullBitDepth - ((LofiBits * k) \div LofiGrid))

\* C11: for every lofiAmount between 0.0 and 1.0 the bit depth the stage
\* uses is 16 - floor(10 * lofiAmount) clamped from below at 1, so it is at
\* least 1, and the quantization step 2^(bitDepth - 1) is at least 1; the
\* same holds of the bit depth and the step of the shipped preset.
C11_BitDepthPositive ==
    /\ bitDepth >= 1
    /\ bitCrush >= 1
    /\ trial # NoTrial =>
         /\ trial.bitDepth = ClampedBitDepth(trial.lofiAmount)
         /\ trial.bitDepth >= 1
         /\ trial.bitCrush = 2 ^ (trial.bitDepth - 1)
         /\ trial.bitCrush >= 1

\* lofiAmount = 1.0 was tried: the bit depth is the smallest of the range.
C11_Witness ==
    /\ trial # NoTrial
    /\ trial.lofiAmount = LofiGrid
    /\ trial.bitDepth = FullBitDepth - LofiBits

\* C12: quantization is idempotent: for every sample and every step
\* 2^(bitDepth - 1), rounding the sample to the step a second time leaves the
\* value of the first rounding.
C12_QuantizeIdempotent ==
    Len(passes) >= 3 => passes[3] = passes[2]

\* A sample off the grid was rounded twice at a reduced bit depth.
C12_Witness ==
    /\ Len(passes) = 3
    /\ passes[2] # passes[1]
    /\ trial.bitDepth < FullBitDepth

(***************************************************************************)
(* The crackle stage: claims.                                              *)
(***************************************************************************)
\* C13 as written: every output sample differs from its quantized value by
\* at most 0.01 * lofiAmount, whatever was drawn; so the output of an all-zero
\* input has magnitude at most 0.01 * lofiAmount.
C13_CrackleWithinAmplitude ==
    EffectRan =>
        \A k \in 1..Len(processed.buffer) :
            /\ AtLeast(processed.buffer[k], crushed[k] - CrackleAmplitude)
            /\ AtMost(processed.buffer[k], crushed[k] + CrackleAmplitude)

\* C13, amended: every output sample is the float32 nearest to its quantized
\* value plus a noise term that lies in [-0.01 * lofiAmount,
\* 0.01 * lofiAmount), whatever was drawn; so it differs from the quantized
\* value by at most 0.01 * lofiAmount and half a float32 step.
C13_CrackleWithinRounding ==
    EffectRan =>
        \A k \in 1..Len(processed.buffer) :
            LET slot == processed.buffer[k]
                noise == slot.near - crushed[k]
            IN /\ -CrackleAmplitude <= noise
               /\ noise < CrackleAmplitude
               /\ slot = fround(slot.near)
               /\ 2 * Abs(slot.err) <= QStep

\* Silence in, the lowest draw, and the slot holds a value below
\* -0.01 * lofiAmount.
C13_Witness ==
    /\ EffectRan
    /\ event.body.pattern = "silence"
    /\ \E k \in 1..Len(processed.buffer) :
          /\ processed.buffer[k].near = -CrackleAmplitude
          /\ processed.buffer[k].err < 0

(***************************************************************************)
(* The effect engine and its input: claims.                                *)
(***************************************************************************)
\* C14: applyJDillaEffect does not mutate its input: once it has returned,
\* the decoded buffer has the length and the samples the decoder gave it, in
\* every channel, and the buffer returned is another array than the input's.
C14_InputUnchanged ==
    EffectRan =>
        /\ audioBuffer = decodeAudioData(event.body)
        /\ NewFloat32Array(SourceHeap(audioBuffer)) # SourceRef

\* The effect ran on an input that it would have changed in place: off the
\* quantization grid, and the output differs from it.
C14_Witness ==
    /\ EffectRan
    /\ event.body.pattern = "offgrid"
    /\ Len(processed.buffer) > 1
    /\ \E k \in 1..Len(processed.buffer) :
          processed.buffer[k].near # getChannelData(audioBuffer, 0)[k]

\* C15: applyJDillaEffect fails on an input of zero length: the call does
\* not resolve with a buffer, and the request is not answered with success.
C15_EmptyInputFails ==
    (engineCalls > 0 /\ Len(sourceDataOf(audioBuffer)) = 0) =>
        /\ hpc # "processed"
        /\ response.statusCode # 200

SwingAmounts == {[num |-> n, den |-> SwingDen] : n \in {0, SwingNum, SwingDen}}

ChannelChain(sourceData, rnd) ==
    Crackle(BitCrush(ShippedStretch(sourceData)), rnd)

\* C17: every channel of the decoded input is processed: the output has a
\* channel c for every channel c of the input, computed from that channel
\* alone by the stretch, the quantization and the crackle.
C17_EveryChannelProcessed ==
    EffectRan =>
        /\ Len(OutputChannels(processed)) = audioBuffer.numberOfChannels
        /\ \A c \in 1..audioBuffer.numberOfChannels :
              \E rnd \in RandomSources :
                  OutputChannels(processed)[c]
                      = ChannelChain(getChannelData(audioBuffer, c - 1), rnd)

\* C18: the sample rate declared for the output is the sample rate of the
\* decoded input: in what applyJDillaEffect returns and in the response.
C18_SampleRatePreserved ==
    /\ EffectRan =>
          /\ processed.sampleRate = decodeAudioData(event.body).sampleRate
          /\ processed.sampleRate = audioBuffer.sampleRate
    /\ (hpc = "done" /\ response.statusCode = 200) =>
          response.sampleRate = decodeAudioData(event.body).sampleRate

\* A 48 kHz upload was processed and answered.
C18_Witness ==
    /\ hpc = "done"
    /\ response.statusCode = 200
    /\ Len(processed.buffer) > 0
    /\ event.body.sampleRate = 48000
    /\ response.sampleRate = 48000

\* C20: the handler returns exactly one response per request and nothing
\* else: 405 for a method other than POST, with nothing decoded or processed;
\* 200 with status "success" only when the body is there and was decoded and
\* processed; otherwise 500 with the generic error and no audioData.
C20_OneResponsePerRequest ==
    /\ responses <= 1
    /\ hpc # "done" => responses = 0 /\ response = NoResponse
    /\ event.httpMethod # "POST" =>
          /\ hpc \in {"idle", "done"}
          /\ engineCalls = 0
          /\ audioBuffer = NoAudio
          /\ processed = NoProcessed
    /\ hpc = "done" =>
          /\ responses = 1
          /\ IF event.httpMethod # "POST"
               THEN response = MethodNotAllowed
               ELSE IF event.body # NoBody /\ Decodable(event.body)
                 THEN /\ engineCalls = 1
                      /\ response.statusCode = 200
                      /\ response.status = "success"
                      /\ response = SuccessResponse(processed)
                 ELSE /\ engineCalls = 0
                      /\ response = ErrorResponse
                      /\ "audioData" \notin DOMAIN response

\* All three answers were given: this one is the 405.
C20_Witness ==
    /\ hpc = "done"
    /\ event.httpMethod = "GET"
    /\ event.body # NoBody
    /\ Decodable(event.body)
    /\ response.statusCode = 405

(***************************************************************************)
(* FileUploader: claims.                                                   *)
(***************************************************************************)
\* C19: whatever the user does, drop zone or 'Select MP3 File' button, a
\* file handed to onFileSelected is one MP3 file of at most 50MB.
C19_OnlySmallMp3Handed ==
    /\ Len(handed) <= 1
    /\ \A i \in 1..Len(handed) :
          /\ AcceptedType(handed[i])
          /\ handed[i].size <= MaxSize

(***************************************************************************)
(* RemixStudio: claims.                                                    *)
(***************************************************************************)
\* C21: once resetState has run, and until the user selects a file again,
\* the status is 'idle' and remixedAudio is null: nothing an upload started
\* before the reset does later (progress, resolution, rejection) changes that.
C21_ResetStaysIdle ==
    resetDone => studio.status = "idle" /\ studio.remixedAudio = Null

\* C22: errorMessage is non-null exactly when the status is 'error', and when
\* the status is 'complete' remixedAudio is the result of the upload that
\* gave fileName its value, the last file selected.
C22_StudioConsistent ==
    /\ studio.errorMessage # Null <=> studio.status = "error"
    /\ studio.status = "complete" =>
          /\ Len(uploads) > 0
          /\ uploads[Len(uploads)].name = studio.fileName
          /\ studio.remixedAudio = RemixUrl(Len(uploads), studio.fileName)

(***************************************************************************)
(* TaskView under a change of taskId: claims.                              *)
(***************************************************************************)
\* C23: the tracks and the status shown belong to the current taskId: tracks
\* shown as complete carry the urls of the current taskId, and the run that
\* last set the status or the tracks was a run for the taskId current at that
\* moment, never an older run finishing after taskId changed.
C23_ShownBelongsToCurrentTask ==
    /\ status = "complete" =>
          \A i \in 1..Len(remixedAudio) :
              remixedAudio[i].mix = AudioUrlOf(taskId, remixedAudio[i].name)
    /\ written.by = written.at

(***************************************************************************)
(* TaskView, one run of fetchStatus: the tracks shown.                     *)
(***************************************************************************)
\* The three tracks of task t, one per producer in the order of the list.
TracksOf(t) ==
    [i \in 1..Len(producers) |->
        MixObject(producers[i], AudioUrlOf(t, producers[i]))]

\* C24: when the status is 'complete' remixedAudio is exactly the three
\* tracks dilla, albini, burns, each with the url of its (taskId, style); and
\* once the polling of a style has thrown, no further style is polled and
\* the next step of the page sets the status to 'error' and leaves
\* remixedAudio as it was.
C24_ThreeTracksOrError ==
    /\ [](status = "complete" => remixedAudio = TracksOf(taskId))
    /\ [][ (thrown # Null /\ clientVars' # clientVars) =>
              /\ status' = "error"
              /\ errorMessage' # Null
              /\ remixedAudio' = remixedAudio
              /\ requests' = requests
         ]_vars

\* C24 witness: the page shows the three tracks of the task after polling
\* all three styles.
C24_Witness ==
    /\ taskId = ServerTask
    /\ fpc = "returned"
    /\ status = "complete"
    /\ Len(remixedAudio) = 3
    /\ remixedAudio[1].name = "dilla"
    /\ remixedAudio[3].mix = AudioUrlOf(ServerTask, "burns")

====
